---- MODULE Spec2Model ----
(***************************************************************************)
(* guardduty-to-slack (src/main.go): forward GuardDuty findings to Slack.  *)
(*                                                                         *)
(* The model follows main.go: BuildConfig, NewApp, App.ParseFindingData,   *)
(* App.Process, App.CreateThread, Finding.ToSeverityLevel, LambdaHandler   *)
(* (with the sync.Once that guards the package variables initErr and app), *)
(* TestWithSamples, ProcessSamples and main.                               *)
(*                                                                         *)
(* Representation.                                                         *)
(*  - A Go string is a TLA+ string; fmt.Sprintf and "+" are \o.            *)
(*  - A Go error is a string; the nil error is NoError (the empty string). *)
(*  - A float64 severity is a fixed-point integer counting ten-thousandths *)
(*    (Fixed(4) is 4.0, Fixed(10) + 1 is 10.0001).                         *)
(*  - A json.RawMessage is a record: whether the bytes are well-formed     *)
(*    JSON holding an object, and the value found under each key that the  *)
(*    Finding struct's tags name.                                          *)
(*  - Thread 0 is the goroutine running main(); threads 1..NumInvocations  *)
(*    are goroutines running LambdaHandler.                                *)
(***************************************************************************)
EXTENDS Integers, Sequences, FiniteSets, TLC

VARIABLES
    env,        \* the process environment (os.Getenv)
    pc,         \* pc[t]: where thread t stands
    once,       \* sync.Once: its done flag and who holds its mutex
    initErr,    \* package variable initErr (main.go:167)
    app,        \* package variable app (main.go:168)
    initRuns,   \* how many times the function handed to once.Do has run
    obs,        \* obs[t]: what LambdaHandler saw when it read initErr
    frame,      \* frame[t]: the locals of thread t's current App.Process call
    mainApp,    \* TestWithSamples' local app (main.go:203)
    mainErr,    \* the error TestWithSamples hands to log.Fatal
    samples,    \* ProcessSamples' local events (main.go:217)
    idx,        \* how many elements the range loop of ProcessSamples has taken
    procCount,  \* procCount[k]: App.Process calls made for sample event k
    parsed,     \* parsed[id]: successful ParseFindingData calls, by finding id
    posts       \* posts[id]: client.PostMessage calls, by finding id

vars == <<env, pc, once, initErr, app, initRuns, obs, frame, mainApp, mainErr,
          samples, idx, procCount, parsed, posts>>

----------------------------------------------------------------------------
(* Bounds *)

\* Goroutines running LambdaHandler in one process.
NumInvocations == 2

\* Longest array of events in fixtures/samples.json.
MaxSamples == 2

----------------------------------------------------------------------------
(* Values *)

NoError == ""

Main == 0
Invocations == 1 .. NumInvocations
Threads == 0 .. NumInvocations

\* n as a float64 severity, in ten-thousandths.
Fixed(n) == n * 10000

----------------------------------------------------------------------------
(* config: main.go:28-53 *)

ZeroConfig ==
    [DebugEnabled |-> FALSE, AwsConsoleURL |-> "", SlackToken |-> "",
     SlackChannel |-> ""]

\* BuildConfig without the check of APP_AWS_CONSOLE_URL.
BuildConfig_UrlOptional(e) ==
    LET cfg == [DebugEnabled  |-> e.APP_DEBUG_ENABLED = "true",
                AwsConsoleURL |-> e.APP_AWS_CONSOLE_URL,
                SlackToken    |-> e.APP_SLACK_TOKEN,
                SlackChannel  |-> e.APP_SLACK_CHANNEL]
    IN  CASE cfg.SlackToken = "" ->
               [cfg |-> ZeroConfig, err |-> "missing env var APP_SLACK_TOKEN"]
          [] cfg.SlackChannel = "" ->
               [cfg |-> ZeroConfig, err |-> "missing env var APP_SLACK_CHANNEL"]
          [] OTHER -> [cfg |-> cfg, err |-> NoError]

BuildConfig(e) ==
    LET cfg == [DebugEnabled  |-> e.APP_DEBUG_ENABLED = "true",
                AwsConsoleURL |-> e.APP_AWS_CONSOLE_URL,
                SlackToken    |-> e.APP_SLACK_TOKEN,
                SlackChannel  |-> e.APP_SLACK_CHANNEL]
    IN  CASE cfg.SlackToken = "" ->
               [cfg |-> ZeroConfig, err |-> "missing env var APP_SLACK_TOKEN"]
          [] cfg.SlackChannel = "" ->
               [cfg |-> ZeroConfig, err |-> "missing env var APP_SLACK_CHANNEL"]
          [] cfg.AwsConsoleURL = "" ->
               [cfg |-> ZeroConfig, err |-> "missing env var APP_AWS_CONSOLE_URL"]
          [] OTHER -> [cfg |-> cfg, err |-> NoError]

----------------------------------------------------------------------------
(* app: main.go:55-67 *)

\* The nil *App: the value of the package variable app before NewApp.
NilApp == [nil |-> TRUE, cfg |-> ZeroConfig, client |-> ""]

NewApp(cfg) == [nil |-> FALSE, cfg |-> cfg, client |-> cfg.SlackToken]

----------------------------------------------------------------------------
(* finding: main.go:124-161 *)

SeverityUnknown  == "unknown"
SeverityLow      == "low"
SeverityMedium   == "medium"
SeverityHigh     == "high"
SeverityCritical == "critical"

\* JSON values found under a key of the payload object.
JAbsent == [t |-> "absent", s |-> "", n |-> 0]
JStr(s) == [t |-> "string", s |-> s, n |-> 0]
JNum(n) == [t |-> "number", s |-> "", n |-> n]

\* The keys the Finding struct's tags name (main.go:137-142).
RequiredFields ==
    {"id", "accountId", "region", "title", "description", "severity"}

\* A nil or empty json.RawMessage: no bytes, which is not JSON.
EmptyRaw ==
    [wellFormed |-> FALSE,
     obj |-> [id |-> JAbsent, accountId |-> JAbsent, region |-> JAbsent,
              title |-> JAbsent, description |-> JAbsent,
              severity |-> JAbsent]]

ZeroFinding ==
    [ID |-> "", AccountID |-> "", Region |-> "", Title |-> "",
     Description |-> "", Severity |-> 0, SeverityLabel |-> "",
     ConsoleURL |-> "", Raw |-> EmptyRaw]

\* ToSeverityLevel with a lower bound, as the boundary table has it.
ToSeverityLevel_Table(f) ==
    CASE f.Severity < Fixed(0)   -> SeverityUnknown
      [] f.Severity < Fixed(4)   -> SeverityLow
      [] f.Severity < Fixed(7)   -> SeverityMedium
      [] f.Severity < Fixed(9)   -> SeverityHigh
      [] f.Severity <= Fixed(10) -> SeverityCritical
      [] OTHER                   -> SeverityUnknown

\* A Go switch takes the first case that holds, as CASE with these guards
\* made disjoint does.
ToSeverityLevel(f) ==
    IF f.Severity < Fixed(4) THEN SeverityLow
    ELSE IF f.Severity < Fixed(7) THEN SeverityMedium
    ELSE IF f.Severity < Fixed(9) THEN SeverityHigh
    ELSE IF f.Severity <= Fixed(10) THEN SeverityCritical
    ELSE SeverityUnknown

SyntaxError == "json: syntax error"
TypeErrorNumber == "json: cannot unmarshal number into Go struct field of type string"
TypeErrorString == "json: cannot unmarshal string into Go struct field of type float64"

\* json.Unmarshal(raw, &f) for f a zero Finding: a key that is absent leaves
\* its field at the zero value; a value of the wrong JSON type is an
\* UnmarshalTypeError; bytes that are not JSON are a SyntaxError.
Unmarshal(raw) ==
    LET o == raw.obj
        StrOK(k) == o[k].t \in {"absent", "string"}
        Str(k)   == IF o[k].t = "string" THEN o[k].s ELSE ""
        f == [ZeroFinding EXCEPT
                !.ID          = Str("id"),
                !.AccountID   = Str("accountId"),
                !.Region      = Str("region"),
                !.Title       = Str("title"),
                !.Description = Str("description"),
                !.Severity    = IF o.severity.t = "number"
                                THEN o.severity.n ELSE 0]
    IN  IF ~raw.wellFormed
        THEN [f |-> ZeroFinding, err |-> SyntaxError]
        ELSE IF \E k \in RequiredFields \ {"severity"} : ~StrOK(k)
        THEN [f |-> f, err |-> TypeErrorNumber]
        ELSE IF o.severity.t = "string"
        THEN [f |-> f, err |-> TypeErrorString]
        ELSE [f |-> f, err |-> NoError]

\* The console link of main.go:74-77.
ConsoleURLOf(base, region, id) ==
    base \o "/guardduty/home?region=" \o region
         \o "#/findings?&macros=current&fId=" \o id

\* ParseFindingData that formats the link with id and region exchanged.
ParseFindingData_SwappedArgs(a, raw) ==
    LET u == Unmarshal(raw)
    IN  IF u.err # NoError
        THEN [f |-> ZeroFinding, err |-> u.err, panic |-> FALSE]
        ELSE IF a.nil
        THEN [f |-> ZeroFinding, err |-> NoError, panic |-> TRUE]
        ELSE LET f1 == [u.f EXCEPT !.ConsoleURL =
                           ConsoleURLOf(a.cfg.AwsConsoleURL, u.f.ID, u.f.Region)]
                 f2 == [f1 EXCEPT !.Raw = raw]
                 f3 == [f2 EXCEPT !.SeverityLabel = ToSeverityLevel(f2)]
             IN  [f |-> f3, err |-> NoError, panic |-> FALSE]

\* (a *App) ParseFindingData. json.Unmarshal does not touch a, so a nil a
\* panics only once the payload has decoded and a.cfg is read.
ParseFindingData(a, raw) ==
    LET u == Unmarshal(raw)
    IN  IF u.err # NoError
        THEN [f |-> ZeroFinding, err |-> u.err, panic |-> FALSE]
        ELSE IF a.nil
        THEN [f |-> ZeroFinding, err |-> NoError, panic |-> TRUE]
        ELSE LET f1 == [u.f EXCEPT !.ConsoleURL =
                           ConsoleURLOf(a.cfg.AwsConsoleURL, u.f.Region, u.f.ID)]
                 f2 == [f1 EXCEPT !.Raw = raw]
                 f3 == [f2 EXCEPT !.SeverityLabel = ToSeverityLevel(f2)]
             IN  [f |-> f3, err |-> NoError, panic |-> FALSE]

----------------------------------------------------------------------------
(* the message of CreateThread: main.go:94-120 *)

NoMessage ==
    [channel |-> "", token |-> "", text |-> "", header |-> "",
     fields |-> <<>>, desc |-> "", button |-> "", url |-> ""]

\* What CreateThread hands to client.PostMessage: the channel, the fallback
\* text, and the blocks header, details, desc, divider, actions.
MessageOf(a, f) ==
    [channel |-> a.cfg.SlackChannel,
     token   |-> a.client,
     text    |-> f.Title,
     header  |-> f.Title,
     fields  |-> << "*Severity:* " \o f.SeverityLabel,
                    "*Region:* " \o f.Region,
                    "*Account:* " \o f.AccountID >>,
     desc    |-> f.Description,
     button  |-> "View in Console",
     url     |-> f.ConsoleURL]

\* The error client.PostMessage returns: nil, or a delivery error (network,
\* authentication, rate limit, unknown channel).
SlackResponses == {NoError, "channel_not_found"}

----------------------------------------------------------------------------
(* Inputs *)

ConsoleBase == "https://us-east-1.console.aws.amazon.com"

\* Environments of the process; an unset variable reads as "".
Envs ==
    [APP_DEBUG_ENABLED        : {"", "true", "TRUE"},
     APP_AWS_CONSOLE_URL      : {"", ConsoleBase},
     APP_SLACK_TOKEN          : {"", "xoxb-1"},
     APP_SLACK_CHANNEL        : {"", "C0"},
     AWS_LAMBDA_FUNCTION_NAME : {"", "guardduty-to-slack"}]

\* The .env file TestWithSamples may find: absent, or naming some settings.
DotEnvFiles ==
    { [exists |-> FALSE, APP_DEBUG_ENABLED |-> "", APP_AWS_CONSOLE_URL |-> "",
       APP_SLACK_TOKEN |-> "", APP_SLACK_CHANNEL |-> ""],
      [exists |-> TRUE, APP_DEBUG_ENABLED |-> "true",
       APP_AWS_CONSOLE_URL |-> ConsoleBase,
       APP_SLACK_TOKEN |-> "xoxb-2", APP_SLACK_CHANNEL |-> "C1"],
      [exists |-> TRUE, APP_DEBUG_ENABLED |-> "", APP_AWS_CONSOLE_URL |-> "",
       APP_SLACK_TOKEN |-> "xoxb-2", APP_SLACK_CHANNEL |-> ""] }

BaseDetail ==
    [wellFormed |-> TRUE,
     obj |-> [id |-> JStr("abc123"), accountId |-> JStr("111122223333"),
              region |-> JStr("us-east-1"), title |-> JStr("Test"),
              description |-> JStr("A finding"),
              severity |-> JNum(Fixed(5))]]

WithField(k, v) == [BaseDetail EXCEPT !.obj[k] = v]

\* Severity scores below and above the range of ToSeverityLevel.
Severities == {Fixed(-1), Fixed(10) + 1}

\* The payloads an event may carry as its detail: bytes that are not JSON,
\* objects lacking one key, out-of-range scores, values of the wrong type,
\* and two complete findings.
Payloads ==
    {[BaseDetail EXCEPT !.wellFormed = FALSE]}
    \cup {WithField(k, JAbsent) : k \in RequiredFields}
    \cup {WithField("severity", JNum(s)) : s \in Severities}
    \cup {BaseDetail,
          WithField("severity", JStr("high")), WithField("id", JNum(7)),
          [BaseDetail EXCEPT !.obj.id = JStr("def456"),
                             !.obj.region = JStr("eu-west-1"),
                             !.obj.severity = JNum(Fixed(9) + 5000)]}

FindingIDs == {"", "abc123", "def456"}

\* Events of fixtures/samples.json: the envelope's id and its detail.
SampleEvents ==
    [ID : {"evt-1", "evt-2"},
     Detail : {BaseDetail, WithField("id", JAbsent),
               WithField("id", JStr("def456")),
               [BaseDetail EXCEPT !.wellFormed = FALSE]}]

\* What os.ReadFile and json.Unmarshal make of fixtures/samples.json.
SampleFiles ==
    {[readErr |-> "open fixtures/samples.json: no such file or directory",
      parseErr |-> NoError, events |-> <<>>],
     [readErr |-> NoError, parseErr |-> "unexpected end of JSON input",
      events |-> <<>>]}
    \cup {[readErr |-> NoError, parseErr |-> NoError, events |-> evs] :
            evs \in UNION {[1 .. n -> SampleEvents] : n \in 0 .. MaxSamples}}

----------------------------------------------------------------------------
(* State *)

\* The locals of one App.Process call: the receiver a, the argument raw, the
\* Finding f that ParseFindingData returned, whether the debug line was
\* logged, the steps taken so far, the PostMessage calls made, the message
\* handed to PostMessage, the error PostMessage answered with, and the error
\* returned to the caller.
ZeroFrame ==
    [a |-> NilApp, raw |-> EmptyRaw, f |-> ZeroFinding, logged |-> FALSE,
     steps |-> <<>>, sends |-> 0, msg |-> NoMessage, resp |-> NoError,
     ret |-> NoError]

NoObs == [read |-> FALSE, done |-> FALSE, initErr |-> NoError, runs |-> 0]

Init ==
    /\ env \in Envs
    /\ pc = [t \in Threads |-> IF t = Main THEN "main" ELSE "idle"]
    /\ once = [done |-> FALSE, locked |-> FALSE]
    /\ initErr = NoError
    /\ app = NilApp
    /\ initRuns = 0
    /\ obs = [t \in Threads |-> NoObs]
    /\ frame = [t \in Threads |-> ZeroFrame]
    /\ mainApp = NilApp
    /\ mainErr = NoError
    /\ samples = <<>>
    /\ idx = 0
    /\ procCount = [k \in 1 .. MaxSamples |-> 0]
    /\ parsed = [id \in FindingIDs |-> 0]
    /\ posts = [id \in FindingIDs |-> 0]

lambdaVars == <<once, initErr, app, initRuns, obs>>
localVars == <<mainApp, mainErr, samples, idx, procCount>>
counters == <<parsed, posts>>

\* Where App.Process returns to: the range loop of ProcessSamples on the
\* main goroutine, the end of LambdaHandler elsewhere.
Return(t) == IF t = Main THEN "iter" ELSE "done"

----------------------------------------------------------------------------
(* App.Process: main.go:83-92, with ParseFindingData and CreateThread *)

\* f, err := a.ParseFindingData(raw); if err != nil { return err }; the debug
\* line of main.go:88-90.
Process_Parse(t) ==
    /\ pc[t] = "parse"
    /\ LET r == ParseFindingData(frame[t].a, frame[t].raw)
       IN  IF r.panic
           THEN /\ pc' = [pc EXCEPT ![t] = "panic"]
                /\ UNCHANGED <<frame, parsed>>
           ELSE IF r.err # NoError
           THEN /\ frame' = [frame EXCEPT ![t].ret = r.err,
                                          ![t].steps = Append(@, "parse")]
                /\ pc' = [pc EXCEPT ![t] = Return(t)]
                /\ parsed' = parsed
           ELSE /\ frame' = [frame EXCEPT ![t].f = r.f,
                                          ![t].logged = frame[t].a.cfg.DebugEnabled,
                                          ![t].steps = Append(@, "parse")]
                /\ pc' = [pc EXCEPT ![t] = "notify"]
                /\ parsed' = [parsed EXCEPT ![r.f.ID] = @ + 1]
    /\ UNCHANGED <<env, lambdaVars, localVars, posts>>

\* CreateThread that posts only the first finding of each id.
Process_CreateThread_Dedup(t) ==
    /\ pc[t] = "notify"
    /\ \E resp \in SlackResponses :
         LET f == frame[t].f
             n == IF posts[f.ID] = 0 THEN 1 ELSE 0
         IN  /\ frame' = [frame EXCEPT
                            ![t].msg = MessageOf(frame[t].a, f),
                            ![t].sends = @ + n,
                            ![t].steps = Append(@, "notify"),
                            ![t].resp = IF n = 1 THEN resp ELSE NoError,
                            ![t].ret = IF n = 1 THEN resp ELSE NoError]
             /\ posts' = [posts EXCEPT ![f.ID] = @ + n]
    /\ pc' = [pc EXCEPT ![t] = Return(t)]
    /\ UNCHANGED <<env, lambdaVars, localVars, parsed>>

\* CreateThread that posts again after a delivery error.
Process_CreateThread_Retry(t) ==
    /\ pc[t] = "notify"
    /\ \E resp \in SlackResponses :
         LET f == frame[t].f
             n == IF resp = NoError THEN 1 ELSE 2
         IN  /\ frame' = [frame EXCEPT
                            ![t].msg = MessageOf(frame[t].a, f),
                            ![t].sends = @ + n,
                            ![t].steps = Append(@, "notify"),
                            ![t].resp = resp,
                            ![t].ret = resp]
             /\ posts' = [posts EXCEPT ![f.ID] = @ + n]
    /\ pc' = [pc EXCEPT ![t] = Return(t)]
    /\ UNCHANGED <<env, lambdaVars, localVars, parsed>>

\* return a.CreateThread(f): the blocks are built from f, PostMessage is
\* called once and its error is the result.
Process_CreateThread(t) ==
    /\ pc[t] = "notify"
    /\ \E resp \in SlackResponses :
         LET f == frame[t].f
         IN  /\ frame' = [frame EXCEPT
                            ![t].msg = MessageOf(frame[t].a, f),
                            ![t].sends = @ + 1,
                            ![t].steps = Append(@, "notify"),
                            ![t].resp = resp,
                            ![t].ret = resp]
             /\ posts' = [posts EXCEPT ![f.ID] = @ + 1]
    /\ pc' = [pc EXCEPT ![t] = Return(t)]
    /\ UNCHANGED <<env, lambdaVars, localVars, parsed>>

----------------------------------------------------------------------------
(* cmd: lambda: main.go:163-191 *)

\* The Lambda runtime calls LambdaHandler on goroutine i.
LambdaHandler_Enter(i) ==
    /\ pc[Main] = "serve"
    /\ pc[i] = "idle"
    /\ pc' = [pc EXCEPT ![i] = "once"]
    /\ UNCHANGED <<env, lambdaVars, frame, localVars, counters>>

\* once.Do: the fast path loads done and returns when it is set.
Once_Do(i) ==
    /\ pc[i] = "once"
    /\ pc' = [pc EXCEPT ![i] = IF once.done THEN "check" ELSE "lock"]
    /\ UNCHANGED <<env, lambdaVars, frame, localVars, counters>>

\* doSlow taking the lock whether or not it is held.
Once_Lock_NoMutex(i) ==
    /\ pc[i] = "lock"
    /\ once' = [once EXCEPT !.locked = TRUE]
    /\ pc' = [pc EXCEPT ![i] = "slow"]
    /\ UNCHANGED <<env, initErr, app, initRuns, obs, frame, localVars, counters>>

\* doSlow: o.m.Lock().
Once_Lock(i) ==
    /\ pc[i] = "lock"
    /\ ~once.locked
    /\ once' = [once EXCEPT !.locked = TRUE]
    /\ pc' = [pc EXCEPT ![i] = "slow"]
    /\ UNCHANGED <<env, initErr, app, initRuns, obs, frame, localVars, counters>>

\* doSlow under the lock: if done is still unset, run the function handed to
\* once.Do (main.go:172-179): BuildConfig, then initErr or app is assigned.
Once_DoSlow(i) ==
    /\ pc[i] = "slow"
    /\ IF once.done
       THEN /\ pc' = [pc EXCEPT ![i] = "unlock"]
            /\ UNCHANGED <<initErr, app, initRuns>>
       ELSE LET r == BuildConfig(env)
            IN  /\ initErr' = IF r.err # NoError THEN r.err ELSE initErr
                /\ app' = IF r.err # NoError THEN app ELSE NewApp(r.cfg)
                /\ initRuns' = initRuns + 1
                /\ pc' = [pc EXCEPT ![i] = "store"]
    /\ UNCHANGED <<env, once, obs, frame, localVars, counters>>

\* doSlow: the deferred o.done.Store(1).
Once_Store(i) ==
    /\ pc[i] = "store"
    /\ once' = [once EXCEPT !.done = TRUE]
    /\ pc' = [pc EXCEPT ![i] = "unlock"]
    /\ UNCHANGED <<env, initErr, app, initRuns, obs, frame, localVars, counters>>

\* doSlow: the deferred o.m.Unlock().
Once_Unlock(i) ==
    /\ pc[i] = "unlock"
    /\ once' = [once EXCEPT !.locked = FALSE]
    /\ pc' = [pc EXCEPT ![i] = "check"]
    /\ UNCHANGED <<env, initErr, app, initRuns, obs, frame, localVars, counters>>

\* LambdaHandler that goes on to Process whatever initErr holds.
LambdaHandler_CheckInitErr_Ignore(i) ==
    /\ pc[i] = "check"
    /\ obs' = [obs EXCEPT ![i] = [read |-> TRUE, done |-> once.done,
                                  initErr |-> initErr, runs |-> initRuns]]
    /\ pc' = [pc EXCEPT ![i] = "call"]
    /\ UNCHANGED <<env, once, initErr, app, initRuns, frame, localVars, counters>>

\* if initErr != nil { return initErr }
LambdaHandler_CheckInitErr(i) ==
    /\ pc[i] = "check"
    /\ obs' = [obs EXCEPT ![i] = [read |-> TRUE, done |-> once.done,
                                  initErr |-> initErr, runs |-> initRuns]]
    /\ IF initErr # NoError
       THEN /\ frame' = [frame EXCEPT ![i].ret = initErr]
            /\ pc' = [pc EXCEPT ![i] = "done"]
       ELSE /\ frame' = frame
            /\ pc' = [pc EXCEPT ![i] = "call"]
    /\ UNCHANGED <<env, once, initErr, app, initRuns, localVars, counters>>

\* The event is marshalled and logged, then app.Process(evt.Detail) is
\* called: app is read here. evt is not read before this point, so its
\* detail is drawn here.
LambdaHandler_Process(i) ==
    /\ pc[i] = "call"
    /\ \E raw \in Payloads :
         frame' = [frame EXCEPT ![i] = [ZeroFrame EXCEPT !.a = app, !.raw = raw]]
    /\ pc' = [pc EXCEPT ![i] = "parse"]
    /\ UNCHANGED <<env, lambdaVars, localVars, counters>>

----------------------------------------------------------------------------
(* cmd: sample: main.go:193-228 *)

\* godotenv.Load(".env"): a setting of the file is taken unless the
\* environment already holds one.
LoadDotEnv(e, d) ==
    LET Pick(cur, new) == IF cur = "" THEN new ELSE cur
    IN  [APP_DEBUG_ENABLED        |-> Pick(e.APP_DEBUG_ENABLED, d.APP_DEBUG_ENABLED),
         APP_AWS_CONSOLE_URL      |-> Pick(e.APP_AWS_CONSOLE_URL, d.APP_AWS_CONSOLE_URL),
         APP_SLACK_TOKEN          |-> Pick(e.APP_SLACK_TOKEN, d.APP_SLACK_TOKEN),
         APP_SLACK_CHANNEL        |-> Pick(e.APP_SLACK_CHANNEL, d.APP_SLACK_CHANNEL),
         AWS_LAMBDA_FUNCTION_NAME |-> e.AWS_LAMBDA_FUNCTION_NAME]

\* if _, err := os.Stat(".env"); err == nil { godotenv.Load(".env") }
TestWithSamples_LoadEnv ==
    /\ pc[Main] = "loadenv"
    /\ \E d \in DotEnvFiles :
         env' = IF d.exists THEN LoadDotEnv(env, d) ELSE env
    /\ pc' = [pc EXCEPT ![Main] = "buildconfig"]
    /\ UNCHANGED <<lambdaVars, frame, localVars, counters>>

\* cfg, err := BuildConfig(); if err != nil { log.Fatal(err) }; NewApp(cfg)
TestWithSamples_BuildConfig ==
    /\ pc[Main] = "buildconfig"
    /\ LET r == BuildConfig(env)
       IN  IF r.err # NoError
           THEN /\ mainErr' = r.err
                /\ mainApp' = mainApp
                /\ pc' = [pc EXCEPT ![Main] = "fatal"]
           ELSE /\ mainErr' = mainErr
                /\ mainApp' = NewApp(r.cfg)
                /\ pc' = [pc EXCEPT ![Main] = "readfile"]
    /\ UNCHANGED <<env, lambdaVars, frame, samples, idx, procCount, counters>>

\* ProcessSamples: os.ReadFile and json.Unmarshal of fixtures/samples.json.
ProcessSamples_Read ==
    /\ pc[Main] = "readfile"
    /\ \E file \in SampleFiles :
         IF file.readErr # NoError
         THEN /\ mainErr' = "read fixtures/samples.json: " \o file.readErr
              /\ pc' = [pc EXCEPT ![Main] = "fatal"]
              /\ UNCHANGED samples
         ELSE IF file.parseErr # NoError
         THEN /\ mainErr' = "parse samples.json: " \o file.parseErr
              /\ pc' = [pc EXCEPT ![Main] = "fatal"]
              /\ UNCHANGED samples
         ELSE /\ samples' = file.events
              /\ pc' = [pc EXCEPT ![Main] = "loop"]
              /\ UNCHANGED mainErr
    /\ UNCHANGED <<env, lambdaVars, frame, mainApp, idx, procCount, counters>>

\* ProcessSamples going on to the next event after a failure.
ProcessSamples_CheckErr_Continue ==
    /\ pc[Main] = "iter"
    /\ pc' = [pc EXCEPT ![Main] = "loop"]
    /\ UNCHANGED <<env, lambdaVars, frame, localVars, counters>>

\* for _, e := range events: the next element is taken and a.Process(e.Detail)
\* is called; with no element left ProcessSamples returns nil.
ProcessSamples_Range ==
    /\ pc[Main] = "loop"
    /\ IF idx < Len(samples)
       THEN /\ idx' = idx + 1
            /\ procCount' = [procCount EXCEPT ![idx + 1] = @ + 1]
            /\ frame' = [frame EXCEPT ![Main] =
                           [ZeroFrame EXCEPT !.a = mainApp,
                                             !.raw = samples[idx + 1].Detail]]
            /\ pc' = [pc EXCEPT ![Main] = "parse"]
       ELSE /\ pc' = [pc EXCEPT ![Main] = "exit"]
            /\ UNCHANGED <<idx, procCount, frame>>
    /\ UNCHANGED <<env, lambdaVars, mainApp, mainErr, samples, counters>>

\* if err := a.Process(e.Detail); err != nil { return fmt.Errorf(...) }, and
\* TestWithSamples hands that error to log.Fatal.
ProcessSamples_CheckErr ==
    /\ pc[Main] = "iter"
    /\ IF frame[Main].ret # NoError
       THEN /\ mainErr' = "process id=" \o samples[idx].ID \o ": "
                             \o frame[Main].ret
            /\ pc' = [pc EXCEPT ![Main] = "fatal"]
       ELSE /\ mainErr' = mainErr
            /\ pc' = [pc EXCEPT ![Main] = "loop"]
    /\ UNCHANGED <<env, lambdaVars, frame, mainApp, samples, idx, procCount,
                   counters>>

----------------------------------------------------------------------------
(* main: main.go:230-240 *)

\* os.LookupEnv("AWS_LAMBDA_FUNCTION_NAME"): lambda.Start(LambdaHandler) when
\* it is set, TestWithSamples() otherwise.
main ==
    /\ pc[Main] = "main"
    /\ pc' = [pc EXCEPT ![Main] =
                IF env.AWS_LAMBDA_FUNCTION_NAME # "" THEN "serve" ELSE "loadenv"]
    /\ UNCHANGED <<env, lambdaVars, frame, localVars, counters>>

Next ==
    \/ main
    \/ \E i \in Invocations : LambdaHandler_Enter(i)
    \/ \E i \in Invocations : Once_Do(i)
    \/ \E i \in Invocations : Once_Lock(i)
    \/ \E i \in Invocations : Once_DoSlow(i)
    \/ \E i \in Invocations : Once_Store(i)
    \/ \E i \in Invocations : Once_Unlock(i)
    \/ \E i \in Invocations : LambdaHandler_CheckInitErr(i)
    \/ \E i \in Invocations : LambdaHandler_Process(i)
    \/ \E t \in Threads : Process_Parse(t)
    \/ \E t \in Threads : Process_CreateThread(t)
    \/ TestWithSamples_LoadEnv
    \/ TestWithSamples_BuildConfig
    \/ ProcessSamples_Read
    \/ ProcessSamples_Range
    \/ ProcessSamples_CheckErr

Spec == Init /\ [][Next]_vars

----------------------------------------------------------------------------
(* Vocabulary of the properties *)

\* Thread t stands inside App.Process.
InProcess(t) == pc[t] \in {"parse", "notify"}

\* Thread t's App.Process call has returned to its caller.
Returned(t) == frame[t].steps # <<>> /\ ~InProcess(t)

\* Thread t's call holds a Finding that ParseFindingData returned.
HasFinding(t) == pc[t] = "notify" \/ Len(frame[t].steps) = 2

\* The payload is a JSON object whose known keys, where present, hold values
\* of the field's type.
Decodes(raw) ==
    /\ raw.wellFormed
    /\ \A k \in RequiredFields \ {"severity"} :
         raw.obj[k].t \in {"absent", "string"}
    /\ raw.obj.severity.t \in {"absent", "number"}

\* The payload is a JSON object that lacks one of the required keys.
LacksRequiredField(raw) ==
    raw.wellFormed /\ \E k \in RequiredFields : raw.obj[k] = JAbsent

ParseErrors == {SyntaxError, TypeErrorNumber, TypeErrorString}

\* One of the three required settings is empty.
ConfigInvalid(e) ==
    e.APP_SLACK_TOKEN = "" \/ e.APP_SLACK_CHANNEL = ""
        \/ e.APP_AWS_CONSOLE_URL = ""

\* The error naming the first missing setting: credential, channel, base URL.
FirstMissing(e) ==
    IF e.APP_SLACK_TOKEN = "" THEN "missing env var APP_SLACK_TOKEN"
    ELSE IF e.APP_SLACK_CHANNEL = "" THEN "missing env var APP_SLACK_CHANNEL"
    ELSE "missing env var APP_AWS_CONSOLE_URL"

\* The function handed to once.Do has run.
LambdaBuilt == initRuns > 0

\* TestWithSamples is past its BuildConfig call.
LocalBuilt == pc[Main] \notin {"main", "serve", "loadenv", "buildconfig"}

----------------------------------------------------------------------------
(* Properties *)

\* C1: the label of every parsed Finding matches the boundary table:
\* [0,4) low, [4,7) medium, [7,9) high, [9,10] critical, and every other
\* score (negative, or above 10) unknown.
C1_SeverityMatchesTable ==
    \A t \in Threads :
      HasFinding(t) =>
        frame[t].f.SeverityLabel = ToSeverityLevel_Table(frame[t].f)

\* C2: a Process call on a payload that lacks a required field returns a
\* parse error and makes no PostMessage call.
C2_MissingFieldIsParseError ==
    \A t \in Threads :
      (frame[t].steps # <<>> /\ LacksRequiredField(frame[t].raw)) =>
        /\ pc[t] # "notify"
        /\ frame[t].sends = 0
        /\ frame[t].ret \in ParseErrors

\* C3: every Process call parses, then notifies, and posts at most once: a
\* payload that does not decode returns the parse error with no post; one
\* that decodes makes exactly one PostMessage call and returns its answer
\* unchanged; a call that returned nil has posted exactly once.
C3_ParseThenNotifyAtMostOnce ==
    \A t \in Threads :
      LET fr == frame[t]
      IN  /\ fr.steps \in {<<>>, <<"parse">>, <<"parse", "notify">>}
          /\ fr.sends <= 1
          /\ (fr.sends = 1) <=> (fr.steps = <<"parse", "notify">>)
          /\ Returned(t) =>
               /\ ~Decodes(fr.raw) => (fr.sends = 0 /\ fr.ret \in ParseErrors)
               /\ Decodes(fr.raw) => (fr.sends = 1 /\ fr.ret = fr.resp)
               /\ fr.ret = NoError => fr.sends = 1

\* C3 witness: one call has returned a parse error without posting, and
\* another has posted once and returned the delivery error.
C3_Witness ==
    \E t, u \in Threads :
      /\ Returned(t) /\ ~Decodes(frame[t].raw) /\ frame[t].sends = 0
      /\ Returned(u) /\ frame[u].sends = 1 /\ frame[u].ret = "channel_not_found"

C5_InitExactlyOnce ==
    /\ initRuns <= 1
    /\ \A i \in Invocations :
         /\ pc[i] \in {"check", "call", "parse", "notify", "done", "panic"} =>
              (once.done /\ initRuns = 1)
         /\ obs[i].read =>
              (obs[i].done /\ obs[i].runs = 1 /\ obs[i].initErr = initErr)
         /\ (InProcess(i) \/ frame[i].steps # <<>>) =>
              (frame[i].a = app /\ ~app.nil)
         /\ pc[i] # "panic"
    /\ \A i, j \in Invocations :
         (obs[i].read /\ obs[j].read) => obs[i] = obs[j]

\* C5 witness: two first invocations raced; one ran the initialization and
\* returned from once.Do, the other took the lock after it and finds done set.
C5_Witness ==
    \E i, j \in Invocations :
      /\ i # j
      /\ obs[i].read
      /\ pc[j] = "slow"
      /\ once.done
      /\ initRuns = 1

\* C6: no event is processed without a valid Config: every Process call runs
\* on an App whose Config has the three settings; when validation fails every
\* LambdaHandler invocation returns the configuration error with no Process
\* call and no post, and TestWithSamples ends before any event is handled.
C6_NoEventWithoutValidConfig ==
    /\ \A t \in Threads :
         (InProcess(t) \/ frame[t].steps # <<>> \/ pc[t] = "panic") =>
           /\ ~frame[t].a.nil
           /\ frame[t].a.cfg.SlackToken # ""
           /\ frame[t].a.cfg.SlackChannel # ""
           /\ frame[t].a.cfg.AwsConsoleURL # ""
    /\ ConfigInvalid(env) =>
         /\ \A i \in Invocations :
              /\ pc[i] \notin {"call", "parse", "notify", "panic"}
              /\ frame[i].steps = <<>> /\ frame[i].sends = 0
              /\ pc[i] = "done" => frame[i].ret = FirstMissing(env)
         /\ LocalBuilt =>
              /\ pc[Main] = "fatal"
              /\ samples = <<>> /\ idx = 0
              /\ \A k \in 1 .. MaxSamples : procCount[k] = 0
              /\ frame[Main] = ZeroFrame
         /\ \A id \in FindingIDs : posts[id] = 0 /\ parsed[id] = 0

\* C6 witness: validation failed and every invocation, the first and the
\* later ones, has returned the configuration error.
C6_Witness ==
    /\ ConfigInvalid(env)
    /\ \A i \in Invocations :
         pc[i] = "done" /\ obs[i].read /\ frame[i].ret = FirstMissing(env)

\* C7: APP_AWS_CONSOLE_URL is optional: with the credential and the channel
\* set and the base URL unset, configuration succeeds.
C7_ConsoleUrlOptional ==
    (/\ env.APP_SLACK_TOKEN # ""
     /\ env.APP_SLACK_CHANNEL # ""
     /\ env.APP_AWS_CONSOLE_URL = "") =>
        /\ LambdaBuilt => (initErr = NoError /\ ~app.nil)
        /\ LocalBuilt => (~mainApp.nil /\ pc[Main] # "fatal")

\* C8: nothing is deduplicated and no state is carried between calls: the
\* PostMessage calls made for an id are as many as the calls that parsed a
\* finding of that id, and what a call posts and returns follows from its
\* own payload and Slack's answer alone.
C8_NoDeduplication ==
    /\ \A id \in FindingIDs :
         posts[id]
           + Cardinality({t \in Threads :
                            pc[t] = "notify" /\ frame[t].f.ID = id})
           = parsed[id]
    /\ \A t \in Threads :
         Returned(t) =>
           /\ frame[t].sends = IF Decodes(frame[t].raw) THEN 1 ELSE 0
           /\ Decodes(frame[t].raw) => frame[t].ret = frame[t].resp

\* C8 witness: the same payload was processed twice and posted twice.
C8_Witness ==
    \E t, u \in Threads :
      /\ t # u
      /\ Returned(t) /\ Returned(u)
      /\ frame[t].raw = frame[u].raw
      /\ frame[t].sends = 1 /\ frame[u].sends = 1
      /\ posts[frame[t].f.ID] = 2

\* C9: ProcessSamples hands the events' details to Process one at a time in
\* array order and stops at the first failure: the events before it were each
\* processed once and succeeded, none after it is processed, and the error
\* carries the failing event's id and wraps its failure; with no failure
\* every event is processed once and nil is returned.
C9_SamplesInOrderStopAtFirstFailure ==
    /\ idx <= Len(samples)
    /\ \A k \in 1 .. MaxSamples : procCount[k] = IF k <= idx THEN 1 ELSE 0
    /\ (idx > 0 /\ pc[Main] \in {"parse", "notify", "iter", "fatal"}) =>
         frame[Main].raw = samples[idx].Detail
    /\ (idx > 0 /\ pc[Main] \in {"loop", "exit"}) =>
         (Returned(Main) /\ frame[Main].ret = NoError)
    /\ pc[Main] = "exit" => (idx = Len(samples) /\ mainErr = NoError)
    /\ (idx > 0 /\ pc[Main] = "fatal") =>
         /\ frame[Main].ret # NoError
         /\ mainErr = "process id=" \o samples[idx].ID \o ": "
                         \o frame[Main].ret

\* C9 witness: the first of two events failed; the second was never
\* processed and the error names the first event's id.
C9_Witness ==
    /\ pc[Main] = "fatal"
    /\ Len(samples) = 2 /\ idx = 1
    /\ samples[1].ID = "evt-2"
    /\ procCount[1] = 1 /\ procCount[2] = 0
    /\ mainErr = "process id=evt-2: json: syntax error"

\* C10: every Finding that ParseFindingData returned carries the label of
\* its own severity and the console link built from the Config's base URL
\* and its own region and id; the same payload under the same Config gives
\* the same label and link; and the message posted carries them unchanged.
C10_DerivedFieldsConsistent ==
    /\ \A t \in Threads :
         HasFinding(t) =>
           LET f == frame[t].f
               o == frame[t].raw.obj
           IN  /\ f.ID = o.id.s /\ f.Region = o.region.s
               /\ f.Severity = o.severity.n
               /\ f.SeverityLabel = ToSeverityLevel(f)
               /\ f.ConsoleURL =
                    frame[t].a.cfg.AwsConsoleURL
                      \o "/guardduty/home?region=" \o f.Region
                      \o "#/findings?&macros=current&fId=" \o f.ID
               /\ Len(frame[t].steps) = 2 =>
                    /\ frame[t].msg.url = f.ConsoleURL
                    /\ frame[t].msg.fields[1] = "*Severity:* " \o f.SeverityLabel
    /\ \A t, u \in Threads :
         (HasFinding(t) /\ HasFinding(u) /\ frame[t].raw = frame[u].raw
            /\ frame[t].a.cfg = frame[u].a.cfg) =>
           /\ frame[t].f.SeverityLabel = frame[u].f.SeverityLabel
           /\ frame[t].f.ConsoleURL = frame[u].f.ConsoleURL

\* C10 witness: a critical finding of eu-west-1 was posted with its link.
C10_Witness ==
    \E t \in Threads :
      /\ Returned(t) /\ frame[t].sends = 1
      /\ frame[t].f.Region = "eu-west-1"
      /\ frame[t].msg.fields = << "*Severity:* critical", "*Region:* eu-west-1",
                                  "*Account:* 111122223333" >>
      /\ frame[t].msg.url =
           "https://us-east-1.console.aws.amazon.com/guardduty/home?region=eu-west-1#/findings?&macros=current&fId=def456"

====
